---- MODULE Spec2Model ----
(***************************************************************************)
(* The remote build-trigger service: a FastAPI event loop that enqueues    *)
(* build tasks and answers status queries, and one background worker that  *)
(* takes tasks from the queue, synchronizes the git checkout and runs the  *)
(* three-step npm pipeline.                                                *)
(*                                                                         *)
(* The repository holds two variants of the service.  `variant` selects    *)
(* the one a behaviour runs:                                               *)
(*   "host" : src/vsix_remote_build/host_build_service/build_service.py    *)
(*   "svc"  : src/vsix_build_service/build_service.py                      *)
(*                                                                         *)
(* Text (logs, messages, command output) is a sequence of tokens.  The     *)
(* tokens "\n" and " " are white space, "=", "-" and "*" are the separator *)
(* characters, and every other token stands for a run of text that holds   *)
(* no line break, begins and ends with a visible character and holds at    *)
(* least one character outside "=-*".  The Chinese literals of the source  *)
(* are written as English tokens.                                          *)
(***************************************************************************)
EXTENDS Integers, Sequences, FiniteSets, TLC

VARIABLES
    variant,        \* which build_service.py runs
    profile,        \* which inputs the environment may supply: "lean", "live", "build" or "git"
    tasks,          \* BuildTask objects, by task id
    queue,          \* BuildState.queue
    task_history,   \* BuildState.task_history (its keys)
    current_task,   \* BuildState.current_task (0 is None)
    lock,           \* BuildState.lock: "free", "worker" or "handler"
    logfile,        \* the per-task log files on disk
    artifacts,      \* ARTIFACTS_DIR: file name -> modification time
    cwd,            \* the process working directory
    repo,           \* the local git repository
    w,              \* the worker thread: position and locals
    h,              \* the event loop: position and locals of the running handler
    outcome         \* history: the branches the processing of each task took

vars == <<variant, profile, tasks, queue, task_history, current_task, lock,
          logfile, artifacts, cwd, repo, w, h, outcome>>

(***************************************************************************)
(* Bounds                                                                  *)
(***************************************************************************)
MaxTasks == 3        \* submissions in a behaviour of Spec
MaxBuildTasks == 1   \* submissions in a behaviour of SpecBuild
MaxGitTasks == 2     \* submissions in a behaviour of SpecGit
MaxLiveTasks == 2    \* submissions in a behaviour of SpecLive
SepWidth == 2        \* tokens that stand for a separator line ("=" * 60)

(***************************************************************************)
(* Text                                                                    *)
(***************************************************************************)
NL == "\n"
WhiteSpace == {" ", NL}
SepChars == {"=", "-", "*"}

RECURSIVE Rep(_, _)
Rep(tok, n) == IF n = 0 THEN <<>> ELSE <<tok>> \o Rep(tok, n - 1)

SepLine == Rep("=", SepWidth)

RECURSIVE LStrip(_)
LStrip(s) == IF s # <<>> /\ Head(s) \in WhiteSpace THEN LStrip(Tail(s)) ELSE s

RECURSIVE RStrip(_)
RStrip(s) ==
    IF s # <<>> /\ s[Len(s)] \in WhiteSpace
    THEN RStrip(SubSeq(s, 1, Len(s) - 1))
    ELSE s

\* str.strip()
Strip(s) == RStrip(LStrip(s))

\* where the first line break of v ends (0 when v has none)
FirstBreak(v) ==
    IF \A i \in 1..Len(v) : v[i] # NL THEN 0
    ELSE CHOOSE i \in 1..Len(v) : v[i] = NL /\ \A j \in 1..(i - 1) : v[j] # NL

\* str.split('\n'): the pieces between line breaks (always at least one).  The
\* string (v) and its first line break (k) are bound once at each piece.
RECURSIVE Split(_)
Split(s) ==
    CHOOSE pieces \in
        UNION {{IF k = 0 THEN <<v>>
                ELSE <<SubSeq(v, 1, k - 1)>> \o Split(SubSeq(v, k + 1, Len(v)))
                    : k \in {FirstBreak(v)}} : v \in {s}} : TRUE

\* all(c in '=-*' for c in stripped)
AllSeparators(line) == \A l_ \in {line} : \A i \in 1..Len(l_) : l_[i] \in SepChars

\* needle in haystack, for strings
Contains(hay, needle) ==
    \E h_ \in {hay}, n_ \in {needle} :
        \E i \in 0..(Len(h_) - Len(n_)) : SubSeq(h_, i + 1, i + Len(n_)) = n_

(***************************************************************************)
(* Names: branch names are strings of characters, file names are a stem    *)
(* followed by a suffix.                                                   *)
(***************************************************************************)
Main == <<"m", "a", "i", "n">>
Feat == <<"f", "e", "a", "t">>
Feature == <<"f", "e", "a", "t", "u", "r", "e">>
Gone == <<"g", "o", "n", "e">>
Unsafe == <<"x", ";", "r", "m">>

NoName == <<>>                     \* the empty string
AVsix == <<"a", ".vsix">>
BVsix == <<"b", ".vsix">>
Notes == <<"notes", ".txt">>

None == 0                          \* Optional[BuildTask] without a task

(***************************************************************************)
(* What the environment may do in a behaviour.  LeanEnv keeps the inputs   *)
(* few so that several tasks can be followed; GitEnv and BuildEnv follow   *)
(* fewer tasks with every input of the synchronization and of the pipeline.*)
(***************************************************************************)
AllGitFaults ==
    {"reset --hard", "fetch origin", "show-ref remote", "show-ref local", "branch -a",
     "checkout", "reset --hard origin", "checkout -b", "rev-parse", "log -1"}

File(name, mtime) == [name |-> name, mtime |-> mtime]
NoFile == [exists |-> FALSE, data |-> <<>>]

PlainOutput == [stdout |-> <<"out", NL>>, stderr |-> <<>>]
NoOutput == [stdout |-> <<>>, stderr |-> <<>>]
NoisyOutput == [stdout |-> <<"out", NL, "-", "-", NL>>,
                stderr |-> <<"warn", NL, " ", NL>>]

\* Spec: several tasks, few inputs
LeanEnv ==
    [maxTasks |-> MaxTasks,
     branches |-> {Feature},
     origin |-> {Main, Feature},
     locals |-> {{Main}},
     present |-> {{File(AVsix, 0)}},
     written |-> {NoName},
     outputs |-> {PlainOutput},
     codes |-> {1},
     failing |-> {1},
     timeouts |-> FALSE,
     gitFaults |-> {"fetch origin"},
     ioFaults |-> FALSE]

\* SpecGit: every branch name and every failure of a git command
GitEnv ==
    [maxTasks |-> MaxGitTasks,
     branches |-> {Feat, Feature, Gone, Unsafe},
     origin |-> {Main, Feature},
     locals |-> {{Main}, {Main, Feature}, {Main, Feat}},
     present |-> {{File(AVsix, 0)}},
     written |-> {NoName},
     outputs |-> {PlainOutput},
     codes |-> {1},
     failing |-> {},
     timeouts |-> FALSE,
     gitFaults |-> AllGitFaults,
     ioFaults |-> FALSE]

\* SpecBuild: one synchronized task, every input of the pipeline
BuildEnv ==
    [maxTasks |-> MaxBuildTasks,
     branches |-> {Feature},
     origin |-> {Main, Feature},
     locals |-> {{Main}, {Main, Feature}},
     present |-> {{}, {File(AVsix, 0), File(BVsix, 0), File(Notes, 0)}},
     written |-> {NoName, AVsix, BVsix, Notes},
     outputs |-> {NoOutput, NoisyOutput},
     codes |-> {1, 2},
     failing |-> {1, 2, 3},
     timeouts |-> TRUE,
     gitFaults |-> {},
     ioFaults |-> TRUE]

\* SpecLive: the inputs of Spec, fewer tasks
LiveEnv == [LeanEnv EXCEPT !.maxTasks = MaxLiveTasks]

EnvOf(p) ==
    CASE p = "lean" -> LeanEnv
      [] p = "live" -> LiveEnv
      [] p = "build" -> BuildEnv
      [] p = "git" -> GitEnv

Env == EnvOf(profile)

(***************************************************************************)
(* BuildTask and BuildState                                                *)
(***************************************************************************)
\* BuildTask.__init__; the handlers overwrite status before the task is shared
BuildTask(branch, status) ==
    [branch |-> branch,
     status |-> status,
     worker_started |-> FALSE,
     start_time |-> FALSE,          \* TRUE once a datetime is stored
     end_time |-> FALSE,
     logs |-> <<>>,
     error_message |-> <<>>,
     result_file |-> NoName]

QueuedStatuses == {"queued", "fetch_queued", "build_queued"}
RunningStatuses == {"fetching", "building"}
TerminalStatuses == {"completed", "failed"}

TaskIds == DOMAIN tasks

\* BuildState.get_queue_position: 1-based index in the queue, 0 when absent
get_queue_position(q, task_id) ==
    IF \E i \in 1..Len(q) : q[i] = task_id
    THEN CHOOSE i \in 1..Len(q) : q[i] = task_id /\ \A j \in 1..(i - 1) : q[j] # task_id
    ELSE 0

\* the response dictionary of api_build_status before any key is set
NoResponse == [status |-> "", branch |-> "", current |-> None,
               message |-> <<>>, error_message |-> <<>>, result_file |-> NoName]

\* enqueued_rank is history: the length of the queue right after the handler's
\* add_task
IdleHandler == [pc |-> "idle", op |-> "none", task_id |-> None,
                queue_position |-> 0, enqueued_rank |-> 0, resp |-> NoResponse]

\* the worker blocked in queue.get(), its locals not yet bound
IdleWorker ==
    [pc |-> "get", task |-> None, kind |-> "",
     success |-> FALSE, message |-> <<>>,          \* success, message
     local_exists |-> FALSE, remote_exists |-> FALSE,
     cmds |-> <<>>,                                \* git commands run by this fetch_branch
     original_dir |-> "unbound",
     level |-> "",                                 \* the try block control is in
     step |-> 0, ran |-> <<>>,                     \* build commands run by this pipeline
     returncode |-> 0, stdout |-> <<>>, stderr |-> <<>>,
     found |-> NoName,                             \* result_file of find_latest_vsix
     script |-> <<>>,                              \* statements left in the running block
     next |-> "",                                  \* where control goes after them
     exc |-> <<>>]                                 \* str(e) of the exception in flight

Init0(p) ==
    /\ variant \in {"host", "svc"}
    /\ profile = p
    /\ tasks = <<>>
    /\ queue = <<>>
    /\ task_history = {}
    /\ current_task = None
    /\ lock = "free"
    /\ logfile = [id \in 1..EnvOf(p).maxTasks |-> NoFile]
    /\ artifacts \in EnvOf(p).present
    /\ cwd = "service"
    /\ \E l \in EnvOf(p).locals : repo = [local |-> l, remote |-> {Main}, head |-> Main]
    /\ w = IdleWorker
    /\ h = IdleHandler
    /\ outcome = <<>>

Init == Init0("lean")
InitBuild == Init0("build")
InitGit == Init0("git")
InitLive == Init0("live")

(***************************************************************************)
(* The event loop.  Handlers are `async def` without an await: one runs    *)
(* at a time, interleaved only with the worker thread.                     *)
(***************************************************************************)
HandlerEnv == UNCHANGED <<variant, profile, lock, logfile, artifacts, cwd, repo, w>>

\* add_task putting the task at the head of the queue
add_task_front(task_id) ==
    /\ queue' = <<task_id>> \o queue
    /\ task_history' = task_history \cup {task_id}

\* BuildState.add_task
add_task(task_id) ==
    /\ queue' = Append(queue, task_id)
    /\ task_history' = task_history \cup {task_id}

\* a new task with a fresh uuid4 is created and build_state.add_task(task) is called;
\* a handler takes the lock and releases it in one step
Submit(branch, status) ==
    /\ h.pc = "idle"
    /\ lock = "free"
    /\ Len(tasks) < Env.maxTasks
    /\ tasks' = Append(tasks, BuildTask(branch, status))
    /\ add_task(Len(tasks) + 1)
    /\ outcome' = Append(outcome, <<>>)
    /\ h' = [IdleHandler EXCEPT !.pc = "get_queue_position", !.op = "submit",
                                !.task_id = Len(tasks) + 1,
                                !.enqueued_rank = Len(queue) + 1]
    /\ UNCHANGED current_task
    /\ HandlerEnv

api_submit_build_task ==
    /\ variant = "host"
    /\ \E b \in Env.branches : Submit(b, "queued")

api_fetch_branch ==
    /\ variant = "svc"
    /\ \E b \in Env.branches : Submit(b, "fetch_queued")

api_build ==
    /\ variant = "svc"
    /\ \E b \in Env.branches : Submit(b, "build_queued")

HandlerReads ==
    /\ UNCHANGED <<tasks, queue, task_history, current_task, outcome>>
    /\ HandlerEnv

\* queue_position = build_state.get_queue_position(task_id), in the submit handlers
\* and in the queued branch of api_build_status
handler_get_queue_position ==
    /\ h.pc = "get_queue_position"
    /\ lock = "free"
    /\ h' = [h EXCEPT !.pc = "respond",
                      !.queue_position = get_queue_position(queue, h.task_id)]
    /\ HandlerReads

\* api_build_status: task = build_state.get_task(task_id), the 404 when there is
\* none, and response = {"status": task.status, ...}
api_build_status ==
    /\ h.pc = "idle"
    /\ lock = "free"
    /\ \E id \in 1..Env.maxTasks :
         h' = IF id \in task_history
              THEN [IdleHandler EXCEPT !.pc = "dispatch", !.op = "status", !.task_id = id,
                                       !.resp.status = tasks[id].status]
              ELSE [IdleHandler EXCEPT !.pc = "respond", !.op = "not_found", !.task_id = id]
    /\ HandlerReads

\* the if/elif chain over task.status and the task fields each branch reads
dispatch ==
    /\ h.pc = "dispatch"
    /\ LET t == tasks[h.task_id] IN
       h' = IF t.status \in QueuedStatuses
            THEN [h EXCEPT !.pc = "get_queue_position", !.resp.branch = "queued"]
            ELSE IF t.status = "building" /\ variant = "host"
            THEN [h EXCEPT !.pc = "get_current_task"]
            ELSE IF t.status = "building"
            THEN [h EXCEPT !.pc = "respond", !.resp.branch = "building",
                           !.resp.message = t.error_message]
            ELSE IF t.status = "completed"
            THEN [h EXCEPT !.pc = "respond", !.resp.branch = "completed",
                           !.resp.result_file = t.result_file]
            ELSE IF t.status = "failed"
            THEN [h EXCEPT !.pc = "respond", !.resp.branch = "failed",
                           !.resp.error_message = t.error_message]
            ELSE [h EXCEPT !.pc = "respond", !.resp.branch = t.status]
    /\ HandlerReads

\* the building branch of the host service: build_state.get_current_task() and the
\* progress message
get_current_task ==
    /\ h.pc = "get_current_task"
    /\ lock = "free"
    /\ h' = [h EXCEPT !.pc = "respond",
                      !.resp.branch = "building",
                      !.resp.current = current_task,
                      !.resp.message = tasks[h.task_id].error_message]
    /\ HandlerReads

\* the handler returns its response (or raises the 404)
respond ==
    /\ h.pc = "respond"
    /\ h' = IdleHandler
    /\ HandlerReads

Handler ==
    \/ api_submit_build_task \/ api_fetch_branch \/ api_build
    \/ handler_get_queue_position
    \/ api_build_status \/ dispatch \/ get_current_task \/ respond

(***************************************************************************)
(* Git.  A command is [verb, branch]; git_cmd gives (success, output) and  *)
(* the repository the command leaves.                                      *)
(***************************************************************************)
GitError == <<"git-stderr">>       \* what a failing git command prints

Chars(str) ==
    CASE str = "  " -> <<" ", " ">>
      [] str = "* " -> <<"*", " ">>
      [] str = "origin/" -> <<"o", "r", "i", "g", "i", "n", "/">>
      [] str = "remotes/origin/" ->
             <<"r", "e", "m", "o", "t", "e", "s", "/", "o", "r", "i", "g", "i", "n", "/">>

\* the order in which `git branch` lists names
BranchOrder == <<Feat, Feature, Gone, Main, Unsafe>>

RECURSIVE Listing(_, _, _)
\* the lines of `git branch -a`, each ended by a line break
Listing(r, i, remote) ==
    IF i > Len(BranchOrder)
    THEN IF remote THEN <<>> ELSE Listing(r, 1, TRUE)
    ELSE LET b == BranchOrder[i]
             line == IF remote
                     THEN IF b \in r.remote
                          THEN Chars("  ") \o Chars("remotes/origin/") \o b \o <<NL>>
                          ELSE <<>>
                     ELSE IF b \in r.local
                          THEN (IF b = r.head THEN Chars("* ") ELSE Chars("  ")) \o b \o <<NL>>
                          ELSE <<>>
         IN line \o Listing(r, i + 1, remote)

\* the command run in BASE_REPO_PATH when nothing outside the repository fails
GitRun(r, cmd) ==
    LET b == cmd.branch IN
    CASE cmd.verb = "reset --hard" -> [ok |-> TRUE, out |-> <<>>, repo |-> r]
      [] cmd.verb = "fetch origin" ->
             [ok |-> TRUE, out |-> <<>>, repo |-> [r EXCEPT !.remote = r.remote \cup Env.origin]]
      [] cmd.verb = "show-ref remote" -> [ok |-> b \in r.remote, out |-> <<>>, repo |-> r]
      [] cmd.verb = "show-ref local" -> [ok |-> b \in r.local, out |-> <<>>, repo |-> r]
      [] cmd.verb = "branch -a" -> [ok |-> TRUE, out |-> Listing(r, 1, FALSE), repo |-> r]
      [] cmd.verb = "checkout" ->
             \* a name that is only a remote branch is created as a tracking branch
             IF b \in r.local \cup r.remote
             THEN [ok |-> TRUE, out |-> <<>>,
                   repo |-> [r EXCEPT !.local = r.local \cup {b}, !.head = b]]
             ELSE [ok |-> FALSE, out |-> GitError, repo |-> r]
      [] cmd.verb = "reset --hard origin" ->
             IF b \in r.remote
             THEN [ok |-> TRUE, out |-> <<>>, repo |-> r]
             ELSE [ok |-> FALSE, out |-> GitError, repo |-> r]
      [] cmd.verb = "checkout -b" ->
             IF b \notin r.local /\ b \in r.remote
             THEN [ok |-> TRUE, out |-> <<>>,
                   repo |-> [r EXCEPT !.local = r.local \cup {b}, !.head = b]]
             ELSE [ok |-> FALSE, out |-> GitError, repo |-> r]
      [] cmd.verb = "rev-parse" -> [ok |-> TRUE, out |-> <<"abc1234">>, repo |-> r]
      [] cmd.verb = "log -1" -> [ok |-> TRUE, out |-> <<"subject", NL, NL, "body">>, repo |-> r]

\* git_cmd: a non-zero exit, a timeout and an exception all give (False, message)
git_cmd(r, cmd, fault) ==
    IF fault
    THEN [ok |-> FALSE, out |-> GitError, repo |-> r]
    ELSE LET res == GitRun(r, cmd) IN
         [ok |-> res.ok, out |-> IF res.ok THEN Strip(res.out) ELSE GitError, repo |-> res.repo]

\* whether the environment may make this command fail
Faults(verb) == IF verb \in Env.gitFaults THEN BOOLEAN ELSE {FALSE}

Cmd(verb, branch) == [verb |-> verb, branch |-> branch]

(***************************************************************************)
(* The worker thread: build_worker                                         *)
(***************************************************************************)
SetField(id, field, value) == tasks' = [tasks EXCEPT ![id][field] = value]

\* history: the worker takes the branch `tag` (of build command `step`, or 0), the
\* exit code of the last command being w.returncode
Event(tag, step) ==
    outcome' = [outcome EXCEPT ![w.task] = Append(@, <<tag, step, w.returncode>>)]

WorkerLocal ==
    UNCHANGED <<variant, profile, tasks, queue, task_history, current_task, lock,
                logfile, artifacts, cwd, repo, h, outcome>>

\* the worker reading the head of the queue without removing it
queue_peek ==
    /\ w.pc = "get"
    /\ queue # <<>>
    /\ w' = [IdleWorker EXCEPT !.pc = "set_current", !.task = Head(queue)]
    /\ UNCHANGED <<variant, profile, tasks, queue, task_history, current_task, lock,
                   logfile, artifacts, cwd, repo, h, outcome>>

\* task = build_state.queue.get(): blocks while the queue is empty; Queue has its
\* own mutex, build_state.lock is not taken
queue_get ==
    /\ w.pc = "get"
    /\ queue # <<>>
    /\ queue' = Tail(queue)
    /\ w' = [IdleWorker EXCEPT !.pc = "set_current", !.task = Head(queue)]
    /\ UNCHANGED <<variant, profile, tasks, task_history, current_task, lock,
                   logfile, artifacts, cwd, repo, h, outcome>>

WorkerLockPcs == {"set_current", "clear_current", "except_clear"}

\* `with self.lock:` entered by the worker
WorkerAcquire ==
    /\ w.pc \in WorkerLockPcs
    /\ lock = "free"
    /\ lock' = "worker"
    /\ UNCHANGED <<variant, profile, tasks, queue, task_history, current_task,
                   logfile, artifacts, cwd, repo, w, h, outcome>>

\* set_current_task leaving the lock held by the worker
set_current_task_locked ==
    /\ w.pc \in WorkerLockPcs
    /\ lock = "worker"
    /\ current_task' = IF w.pc = "set_current" THEN w.task ELSE None
    /\ w' = IF w.pc # "set_current" THEN IdleWorker
            ELSE [w EXCEPT !.pc = IF variant = "host" THEN "status_fetching"
                                  ELSE "worker_started"]
    /\ UNCHANGED <<variant, profile, tasks, queue, task_history, lock,
                   logfile, artifacts, cwd, repo, h, outcome>>

\* build_state.set_current_task(task) and build_state.set_current_task(None)
set_current_task ==
    /\ w.pc \in WorkerLockPcs
    /\ lock = "worker"
    /\ lock' = "free"
    /\ current_task' = IF w.pc = "set_current" THEN w.task ELSE None
    /\ w' = IF w.pc # "set_current" THEN IdleWorker
            ELSE [w EXCEPT !.pc = IF variant = "host" THEN "status_fetching"
                                  ELSE "worker_started"]
    /\ UNCHANGED <<variant, profile, tasks, queue, task_history,
                   logfile, artifacts, cwd, repo, h, outcome>>

\* svc: task.worker_started = True
worker_started ==
    /\ w.pc = "worker_started"
    /\ SetField(w.task, "worker_started", TRUE)
    /\ w' = [w EXCEPT !.pc = "status_fetching"]
    /\ UNCHANGED <<variant, profile, queue, task_history, current_task, lock,
                   logfile, artifacts, cwd, repo, h, outcome>>

\* task.status = "fetching" (svc: in the branch its queued status selects)
status_fetching ==
    /\ w.pc = "status_fetching"
    /\ SetField(w.task, "status", "fetching")
    /\ w' = [w EXCEPT !.pc = "git_reset", !.kind = tasks[w.task].status]
    /\ UNCHANGED <<variant, profile, queue, task_history, current_task, lock,
                   logfile, artifacts, cwd, repo, h, outcome>>

(***************************************************************************)
(* fetch_branch(task.branch)                                               *)
(***************************************************************************)
Branch == tasks[w.task].branch

\* one git_cmd call of fetch_branch: the command and its success are recorded and
\* the repository updated; `next` chooses the worker's continuation from the result
GitStep(pc, verb, next(_)) ==
    /\ w.pc = pc
    /\ \E fault \in Faults(verb) :
         LET res == git_cmd(repo, Cmd(verb, Branch), fault) IN
         /\ repo' = res.repo
         /\ w' = next(res) @@
                  [cmds |-> Append(w.cmds, Cmd(verb, Branch) @@ [ok |-> res.ok])] @@ w
    /\ UNCHANGED <<variant, profile, tasks, queue, task_history, current_task, lock,
                   logfile, artifacts, cwd, h, outcome>>

\* return False, <message>
FetchFails(message) == [pc |-> "fetched", success |-> FALSE, message |-> message]

\* step 0 with a failure returned like the failure of any later step
git_reset_hard_fatal ==
    GitStep("git_reset", "reset --hard",
            LAMBDA res : IF res.ok
                         THEN [pc |-> "git_fetch"]
                         ELSE FetchFails(<<"reset failed:", " ">> \o res.out))

\* step 0: a failure is logged and ignored
git_reset_hard ==
    GitStep("git_reset", "reset --hard", LAMBDA res : [pc |-> "git_fetch"])

\* step 1
git_fetch_origin ==
    GitStep("git_fetch", "fetch origin",
            LAMBDA res : IF res.ok
                         THEN [pc |-> IF variant = "host" THEN "check_remote" ELSE "list_branches"]
                         ELSE FetchFails(<<"fetch failed:", " ">> \o res.out))

RemoteMissing == <<"remote branch 'origin/">> \o Branch \o <<"' does not exist">>

\* host step 2: git show-ref --verify --quiet refs/remotes/origin/{branch}
check_remote_ref ==
    GitStep("check_remote", "show-ref remote",
            LAMBDA res : IF res.ok
                         THEN [pc |-> "check_local", remote_exists |-> TRUE]
                         ELSE FetchFails(RemoteMissing))

\* host step 3: git show-ref --verify --quiet refs/heads/{branch}
check_local_ref ==
    GitStep("check_local", "show-ref local",
            LAMBDA res : [pc |-> IF res.ok THEN "checkout" ELSE "create",
                          local_exists |-> res.ok])

\* svc: any(f"  {branch}" in line or f"* {branch}" in line for line in branches)
LocalListed(lines, b) ==
    \E branches \in {lines} :
        \E i \in 1..Len(branches) :
            \/ Contains(branches[i], Chars("  ") \o b)
            \/ Contains(branches[i], Chars("* ") \o b)

\* svc: any(f"origin/{branch}" in line for line in branches)
RemoteListed(lines, b) ==
    \E branches \in {lines} :
        \E i \in 1..Len(branches) : Contains(branches[i], Chars("origin/") \o b)

\* svc step 3: git branch -a and the search of its output
list_branches ==
    GitStep("list_branches", "branch -a",
            LAMBDA res :
                IF ~res.ok
                THEN FetchFails(<<"branch check failed:", " ">> \o res.out)
                ELSE LET lines == Split(res.out)
                         loc == LocalListed(lines, Branch)
                         rem == RemoteListed(lines, Branch)
                     IN IF ~rem
                        THEN FetchFails(RemoteMissing) @@
                             [local_exists |-> loc, remote_exists |-> rem]
                        ELSE [pc |-> IF loc THEN "checkout" ELSE "create",
                              local_exists |-> loc, remote_exists |-> rem])

\* step 4a: git checkout {branch}
git_checkout ==
    GitStep("checkout", "checkout",
            LAMBDA res : IF res.ok
                         THEN [pc |-> "reset_to_remote"]
                         ELSE FetchFails(<<"checkout failed:", " ">> \o res.out))

Fetched(result) ==
    IF variant = "host"
    THEN [pc |-> "commit_info", message |-> result]
    ELSE [pc |-> "fetched", success |-> TRUE, message |-> result]

\* step 4b: git reset --hard origin/{branch}
git_reset_to_remote ==
    GitStep("reset_to_remote", "reset --hard origin",
            LAMBDA res : IF res.ok
                         THEN Fetched(<<"branch '">> \o Branch \o <<"' force-updated">>)
                         ELSE FetchFails(<<"update failed:", " ">> \o res.out))

\* step 4: git checkout -b {branch} origin/{branch}
git_checkout_new ==
    GitStep("create", "checkout -b",
            LAMBDA res : IF res.ok
                         THEN Fetched(<<"branch '">> \o Branch \o <<"' created from remote">>)
                         ELSE FetchFails(<<"create failed:", " ">> \o res.out))

Unknown == <<"unknown">>

\* get_current_commit_info: (short hash, first line of the commit message)
get_current_commit_info(hashFault, logFault) ==
    LET hash == git_cmd(repo, Cmd("rev-parse", <<>>), hashFault)
        log == git_cmd(repo, Cmd("log -1", <<>>), logFault)
    IN IF ~hash.ok THEN <<Unknown, Unknown>>
       ELSE IF ~log.ok THEN <<hash.out, Unknown>>
       ELSE <<hash.out, IF log.out # <<>> THEN Split(log.out)[1] ELSE Unknown>>

\* host: the commit of HEAD is added to the result and fetch_branch returns True
commit_info ==
    /\ w.pc = "commit_info"
    /\ \E hf \in Faults("rev-parse"), lf \in Faults("log -1") :
         LET info == get_current_commit_info(hf, lf) IN
         w' = [w EXCEPT !.pc = "fetched", !.success = TRUE,
                        !.message = w.message \o <<" ", "|", " ", "Latest:", " ">> \o info[1]
                                    \o <<" ", "-", " ">> \o info[2]]
    /\ WorkerLocal

fetch_branch ==
    \/ git_reset_hard \/ git_fetch_origin
    \/ check_remote_ref \/ check_local_ref \/ list_branches
    \/ git_checkout \/ git_reset_to_remote \/ git_checkout_new
    \/ commit_info

(***************************************************************************)
(* Straight-line blocks.  A block of assignments and calls is run one      *)
(* statement at a time from w.script, so that the handlers see each        *)
(* intermediate state; w.next is the position after the block.             *)
(***************************************************************************)
Set(field, value) == [op |-> "set", field |-> field, value |-> value]
AppendLog(content) == [op |-> "append", content |-> content]
ChdirBack == [op |-> "chdir"]
InitLog == [op |-> "init_log"]
Return(success, message) ==
    [op |-> "return", success |-> success, message |-> message]

\* the worker record about to run `script` and then continue at `next`
Run(wr, script, next) ==
    IF script = <<>>
    THEN [wr EXCEPT !.pc = next, !.script = <<>>, !.next = ""]
    ELSE [wr EXCEPT !.pc = "script", !.script = script, !.next = next]

\* the head statement is done
Advance(wr) == Run(wr, Tail(wr.script), wr.next)

Stmt == Head(w.script)

\* task.<field> = value
assign ==
    /\ w.pc = "script"
    /\ Stmt.op = "set"
    /\ SetField(w.task, Stmt.field, Stmt.value)
    /\ w' = Advance(w)
    /\ UNCHANGED <<variant, profile, queue, task_history, current_task, lock,
                   logfile, artifacts, cwd, repo, h, outcome>>

\* the worker going on to the build whatever fetch_branch returned
fetched_unchecked ==
    /\ w.pc = "fetched"
    /\ w' = IF variant = "host" THEN Run(w, <<Set("status", "building")>>, "getcwd")
            ELSE [w EXCEPT !.pc = "getcwd"]
    /\ Event(IF w.success THEN "synced" ELSE "sync_failed", 0)
    /\ UNCHANGED <<variant, profile, tasks, queue, task_history, current_task, lock,
                   logfile, artifacts, cwd, repo, h>>

\* the worker's `if not success:` after fetch_branch, and what follows it
fetched ==
    /\ w.pc = "fetched"
    /\ IF ~w.success
       THEN /\ w' = Run(w, <<Set("status", "failed"),
                             Set("error_message", <<"branch fetch failed:", " ">> \o w.message),
                             Set("end_time", TRUE)>>, "clear_current")
            /\ Event("sync_failed", 0)
       ELSE IF w.kind = "fetch_queued"
       THEN /\ w' = Run(w, <<Set("status", "fetch_completed"), Set("end_time", TRUE)>>,
                        "clear_current")
            /\ Event("synced", 0)
       ELSE IF variant = "host"
       THEN /\ w' = Run(w, <<Set("status", "building")>>, "getcwd")
            /\ Event("synced", 0)
       ELSE /\ w' = [w EXCEPT !.pc = "getcwd"]
            /\ Event("synced", 0)
    /\ UNCHANGED <<variant, profile, tasks, queue, task_history, current_task, lock,
                   logfile, artifacts, cwd, repo, h>>

(***************************************************************************)
(* execute_npm_commands(task)                                              *)
(***************************************************************************)
CommandNames == <<"npm i", "npm run build", "npm run package">>

Timestamp == "<datetime>"          \* str(datetime.now())

\* the lines of content.strip().split('\n'), searched from the last one for a
\* line that is neither blank nor made of separator characters only
RECURSIVE LastMessage(_, _)
LastMessage(lines, old) ==
    CHOOSE message \in
        UNION {IF ls = <<>>
               THEN {old}
               ELSE {IF stripped # <<>> /\ ~AllSeparators(stripped)
                     THEN stripped
                     ELSE LastMessage(SubSeq(ls, 1, Len(ls) - 1), old)
                         : stripped \in {Strip(ls[Len(ls)])}} : ls \in {lines}} : TRUE

\* the block that runs when `msg` is raised at the worker's position: the except
\* clause that catches it, or the way out through finally
Raise(wr, msg) ==
    IF variant = "svc" /\ wr.level = "inner"
    THEN LET error_msg == <<CommandNames[wr.step], " ", "exception:", " ">> \o msg IN
         Run([wr EXCEPT !.level = "inner_except"],
             <<Set("error_message", error_msg), Set("end_time", TRUE), Set("status", "failed"),
               AppendLog(<<NL, "[EXCEPTION]", " ">> \o error_msg \o <<NL>>),
               Return(FALSE, error_msg)>>, "")
    ELSE IF wr.level \in {"body", "inner", "inner_except"}
    THEN Run([wr EXCEPT !.level = "outer_except"],
             <<Set("error_message", msg), Set("end_time", TRUE), Set("status", "failed"),
               AppendLog(<<NL, "[EXCEPTION]", " ">> \o msg \o <<NL>>),
               AppendLog(<<"end time:", " ", Timestamp, NL>>),
               Return(FALSE, <<"build exception:", " ">> \o msg)>>, "")
    ELSE [wr EXCEPT !.pc = "finally", !.script = <<>>, !.next = "", !.exc = msg]

\* history: the clause that catches an exception raised at the worker's position
Caught(wr) ==
    IF variant = "svc" /\ wr.level = "inner" THEN "step_exception"
    ELSE IF wr.level \in {"body", "inner", "inner_except"} THEN "exception"
    ELSE "worker_exception"

IoFaults == IF Env.ioFaults THEN BOOLEAN ELSE {FALSE}

\* append_task_log assigning the new content to task.logs in place of appending it
append_task_log_assign ==
    /\ w.pc = "script"
    /\ Stmt.op = "append"
    /\ \E fault \in IoFaults :
         LET t == tasks[w.task]
             logs == Stmt.content
         IN IF fault
            THEN /\ tasks' = [tasks EXCEPT ![w.task].logs = logs]
                 /\ w' = Raise(w, <<"OSError">>)
                 /\ Event(Caught(w), w.step)
                 /\ UNCHANGED logfile
            ELSE /\ UNCHANGED outcome
                 /\ tasks' = [tasks EXCEPT ![w.task].logs = logs,
                                           ![w.task].error_message =
                                               LastMessage(Split(Strip(Stmt.content)), @)]
                 /\ logfile' = [logfile EXCEPT ![w.task] =
                                    [exists |-> TRUE, data |-> @.data \o Stmt.content]]
                 /\ w' = Advance(w)
    /\ UNCHANGED <<variant, profile, queue, task_history, current_task, lock,
                   artifacts, cwd, repo, h>>

\* append_task_log taking the last line of the content as the message, whatever it is
append_task_log_last_line ==
    /\ w.pc = "script"
    /\ Stmt.op = "append"
    /\ \E fault \in IoFaults :
         LET t == tasks[w.task]
             logs == t.logs \o Stmt.content
         IN IF fault
            THEN /\ tasks' = [tasks EXCEPT ![w.task].logs = logs]
                 /\ w' = Raise(w, <<"OSError">>)
                 /\ Event(Caught(w), w.step)
                 /\ UNCHANGED logfile
            ELSE /\ UNCHANGED outcome
                 /\ tasks' = [tasks EXCEPT ![w.task].logs = logs,
                                           ![w.task].error_message =
                                               Strip(Split(Strip(Stmt.content))[Len(Split(Strip(Stmt.content)))])]
                 /\ logfile' = [logfile EXCEPT ![w.task] =
                                    [exists |-> TRUE, data |-> @.data \o Stmt.content]]
                 /\ w' = Advance(w)
    /\ UNCHANGED <<variant, profile, queue, task_history, current_task, lock,
                   artifacts, cwd, repo, h>>

\* append_task_log(content): memory, then the file, then the last message
append_task_log ==
    /\ w.pc = "script"
    /\ Stmt.op = "append"
    /\ \E fault \in IoFaults :
         LET t == tasks[w.task]
             logs == t.logs \o Stmt.content
         IN IF fault
            THEN /\ tasks' = [tasks EXCEPT ![w.task].logs = logs]
                 /\ w' = Raise(w, <<"OSError">>)
                 /\ Event(Caught(w), w.step)
                 /\ UNCHANGED logfile
            ELSE /\ UNCHANGED outcome
                 /\ tasks' = [tasks EXCEPT ![w.task].logs = logs,
                                           ![w.task].error_message =
                                               LastMessage(Split(Strip(Stmt.content)), @)]
                 /\ logfile' = [logfile EXCEPT ![w.task] =
                                    [exists |-> TRUE, data |-> @.data \o Stmt.content]]
                 /\ w' = Advance(w)
    /\ UNCHANGED <<variant, profile, queue, task_history, current_task, lock,
                   artifacts, cwd, repo, h>>

\* os.chdir(original_dir) before a return (host)
chdir_back ==
    /\ w.pc = "script"
    /\ Stmt.op = "chdir"
    /\ cwd' = w.original_dir
    /\ w' = Advance(w)
    /\ UNCHANGED <<variant, profile, tasks, queue, task_history, current_task, lock,
                   logfile, artifacts, repo, h, outcome>>

\* return success, message
return ==
    /\ w.pc = "script"
    /\ Stmt.op = "return"
    /\ w' = [w EXCEPT !.pc = "finally", !.script = <<>>, !.next = "",
                      !.success = Stmt.success, !.message = Stmt.message]
    /\ Event("return", w.step)
    /\ UNCHANGED <<variant, profile, tasks, queue, task_history, current_task, lock,
                   logfile, artifacts, cwd, repo, h>>

\* original_dir = os.getcwd(): inside the try in host, before it in svc
getcwd ==
    /\ w.pc = "getcwd"
    /\ \E fault \in BOOLEAN :
         IF ~fault
         THEN /\ w' = [w EXCEPT !.pc = "chdir", !.original_dir = cwd, !.level = "body"]
              /\ UNCHANGED outcome
         ELSE IF variant = "host"
         THEN /\ w' = Raise([w EXCEPT !.level = "body"], <<"FileNotFoundError">>)
              /\ Event("exception", 0)
         ELSE /\ w' = [w EXCEPT !.pc = "worker_except", !.exc = <<"FileNotFoundError">>]
              /\ Event("worker_exception", 0)
    /\ UNCHANGED <<variant, profile, tasks, queue, task_history, current_task, lock,
                   logfile, artifacts, cwd, repo, h>>

\* os.chdir(PROJECT_PATH), then the statements up to the loop
chdir_project ==
    /\ w.pc = "chdir"
    /\ \E fault \in IoFaults :
         IF fault
         THEN /\ w' = Raise(w, <<"FileNotFoundError">>)
              /\ Event(Caught(w), 0)
              /\ UNCHANGED cwd
         ELSE /\ cwd' = "project"
              /\ UNCHANGED outcome
              /\ w' = Run(w, <<Set("start_time", TRUE), Set("status", "building"), InitLog>>,
                          "loop")
    /\ UNCHANGED <<variant, profile, tasks, queue, task_history, current_task, lock,
                   logfile, artifacts, repo, h>>

\* with open(task.log_file, "w"): the header of the log file
init_log ==
    /\ w.pc = "script"
    /\ Stmt.op = "init_log"
    /\ \E fault \in IoFaults :
         IF fault
         THEN /\ w' = Raise(w, <<"OSError">>)
              /\ Event(Caught(w), 0)
              /\ UNCHANGED logfile
         ELSE /\ UNCHANGED outcome
              /\ logfile' = [logfile EXCEPT ![w.task] =
                                 [exists |-> TRUE,
                                  data |-> <<"task id:", " ", ToString(w.task), NL, "branch:", " ">>
                                           \o Branch \o <<NL, "start time:", " ", Timestamp, NL>>
                                           \o SepLine \o <<NL, NL>>]]
              /\ w' = Advance(w)
    /\ UNCHANGED <<variant, profile, tasks, queue, task_history, current_task, lock,
                   artifacts, cwd, repo, h>>

\* for cmd_name, cmd in commands: the header of the next command, or the end
loop ==
    /\ w.pc = "loop"
    /\ IF w.step = Len(CommandNames)
       THEN w' = [w EXCEPT !.pc = "find", !.level = "body"]
       ELSE w' = Run([w EXCEPT !.step = w.step + 1, !.level = "body"],
                     <<AppendLog(<<NL>> \o SepLine \o <<NL, "run:", " ", CommandNames[w.step + 1], NL>>
                                 \o SepLine \o <<NL>>)>>,
                     "run")
    /\ WorkerLocal

\* host: the whole stdout, then the whole stderr
HostOutput(out) ==
    (IF out.stdout # <<>> THEN <<AppendLog(out.stdout)>> ELSE <<>>)
    \o (IF out.stderr # <<>> THEN <<AppendLog(out.stderr)>> ELSE <<>>)

RECURSIVE StdoutLines(_)
\* svc: append_task_log(line + "\n") for each line
StdoutLines(lines) ==
    IF lines = <<>> THEN <<>>
    ELSE <<AppendLog(Head(lines) \o <<NL>>)>> \o StdoutLines(Tail(lines))

RECURSIVE StderrLines(_)
\* svc: append_task_log(f"[stderr] {line}\n") for each line that is not blank
StderrLines(lines) ==
    IF lines = <<>> THEN <<>>
    ELSE (IF Strip(Head(lines)) # <<>>
          THEN <<AppendLog(<<"[stderr]", " ">> \o Head(lines) \o <<NL>>)>>
          ELSE <<>>) \o StderrLines(Tail(lines))

SvcOutput(out) ==
    (IF out.stdout # <<>> THEN StdoutLines(Split(out.stdout)) ELSE <<>>)
    \o (IF out.stderr # <<>> THEN StderrLines(Split(out.stderr)) ELSE <<>>)

\* except subprocess.TimeoutExpired
TimedOut(step) ==
    LET error_msg == <<CommandNames[step], " ", "timed out">> IN
    (IF variant = "host" THEN <<ChdirBack>> ELSE <<>>)
    \o <<Set("error_message", error_msg), Set("end_time", TRUE), Set("status", "failed"),
         AppendLog(<<NL, IF variant = "host" THEN "[ERROR]" ELSE "[TIMEOUT]", " ">>
                   \o error_msg \o <<NL>>),
         Return(FALSE, error_msg)>>

\* what `npm run package` leaves in ARTIFACTS_DIR
Written(dir, name, mtime) ==
    IF name = NoName THEN dir
    ELSE {f \in dir : f.name # name} \cup {File(name, mtime)}

\* result = subprocess.run(cmd, ...) and the appends of its output
run ==
    /\ w.pc = "run"
    /\ LET wr == [w EXCEPT !.level = "inner", !.ran = Append(w.ran, CommandNames[w.step])] IN
       \/ \E rc \in {0} \cup Env.codes, out \in Env.outputs, name \in Env.written :
            /\ rc # 0 => w.step \in Env.failing
            /\ name # NoName => w.step = Len(CommandNames) /\ rc = 0
            /\ artifacts' = Written(artifacts, name, w.task)
            /\ w' = Run([wr EXCEPT !.returncode = rc, !.stdout = out.stdout,
                                   !.stderr = out.stderr],
                        IF variant = "host" THEN HostOutput(out) ELSE SvcOutput(out),
                        "check")
            /\ UNCHANGED outcome
       \/ /\ Env.timeouts
          /\ w.step \in Env.failing
          /\ w' = Run([wr EXCEPT !.level = "inner_except"], TimedOut(w.step), "")
          /\ Event("step_timeout", w.step)
          /\ UNCHANGED artifacts
       \/ /\ Env.ioFaults
          /\ w' = Raise(wr, <<"OSError">>)
          /\ Event(Caught(wr), w.step)
          /\ UNCHANGED artifacts
    /\ UNCHANGED <<variant, profile, tasks, queue, task_history, current_task, lock,
                   logfile, cwd, repo, h>>

\* the failure block also logging the end time, as the no-artifact block does
StepFailedEndTime(step, returncode) ==
    LET error_msg == <<CommandNames[step], " ", "failed (exit code:", " ",
                       ToString(returncode), ")">> IN
    (IF variant = "host" THEN <<ChdirBack>> ELSE <<>>)
    \o <<Set("error_message", error_msg), Set("end_time", TRUE), Set("status", "failed"),
         AppendLog(<<NL, IF variant = "host" THEN "[ERROR]" ELSE "[FAILED]", " ">>
                   \o error_msg \o <<NL>>),
         AppendLog(<<"end time:", " ", Timestamp, NL>>),
         Return(FALSE, error_msg)>>

\* if result.returncode != 0
StepFailed(step, returncode) ==
    LET error_msg == <<CommandNames[step], " ", "failed (exit code:", " ",
                       ToString(returncode), ")">> IN
    (IF variant = "host" THEN <<ChdirBack>> ELSE <<>>)
    \o <<Set("error_message", error_msg), Set("end_time", TRUE), Set("status", "failed"),
         AppendLog(<<NL, IF variant = "host" THEN "[ERROR]" ELSE "[FAILED]", " ">>
                   \o error_msg \o <<NL>>),
         Return(FALSE, error_msg)>>

\* the exit code looked at after the last command only
check_returncode_at_end ==
    /\ w.pc = "check"
    /\ IF w.returncode # 0 /\ w.step = Len(CommandNames)
       THEN /\ w' = Run(w, StepFailed(w.step, w.returncode), "")
            /\ Event("step_failed", w.step)
       ELSE /\ w' = [w EXCEPT !.pc = "loop"]
            /\ UNCHANGED outcome
    /\ UNCHANGED <<variant, profile, tasks, queue, task_history, current_task, lock,
                   logfile, artifacts, cwd, repo, h>>

\* the failure recorded without the return: the loop goes on
check_returncode_continue ==
    /\ w.pc = "check"
    /\ IF w.returncode # 0
       THEN /\ w' = Run(w, SubSeq(StepFailed(w.step, w.returncode), 1,
                                  Len(StepFailed(w.step, w.returncode)) - 1), "loop")
            /\ Event("step_failed", w.step)
       ELSE /\ w' = [w EXCEPT !.pc = "loop"]
            /\ UNCHANGED outcome
    /\ UNCHANGED <<variant, profile, tasks, queue, task_history, current_task, lock,
                   logfile, artifacts, cwd, repo, h>>

\* if result.returncode != 0: the pipeline stops; otherwise the next command
check_returncode ==
    /\ w.pc = "check"
    /\ IF w.returncode # 0
       THEN /\ w' = Run(w, StepFailed(w.step, w.returncode), "")
            /\ Event("step_failed", w.step)
       ELSE /\ w' = [w EXCEPT !.pc = "loop"]
            /\ UNCHANGED outcome
    /\ UNCHANGED <<variant, profile, tasks, queue, task_history, current_task, lock,
                   logfile, artifacts, cwd, repo, h>>

IsVsix(name) == name # <<>> /\ name[Len(name)] = ".vsix"

\* except Exception: return None
StatFails == IF Env.ioFaults THEN {NoName} ELSE {}

\* find_latest_vsix taking the oldest file (min in place of max)
find_oldest_vsix(dir) ==
    LET vsix_files == {f \in dir : IsVsix(f.name)} IN
    IF vsix_files = {}
    THEN {NoName}
    ELSE {f.name : f \in {g \in vsix_files : \A o \in vsix_files : g.mtime <= o.mtime}}
         \cup StatFails

\* find_latest_vsix: the names max() may return, NoName when it returns None (no
\* file matches, or glob or stat raises)
find_latest_vsix(dir) ==
    LET vsix_files == {f \in dir : IsVsix(f.name)} IN
    IF vsix_files = {}
    THEN {NoName}
    ELSE {f.name : f \in {g \in vsix_files : \A o \in vsix_files : o.mtime <= g.mtime}}
         \cup StatFails

\* if result_file:
Succeeded(result_file) ==
    LET success_msg == <<"build succeeded, artifact:", " ">> \o result_file IN
    <<Set("result_file", result_file), Set("end_time", TRUE), Set("status", "completed")>>
    \o (IF variant = "host" THEN <<ChdirBack>> ELSE <<>>)
    \o <<AppendLog(<<NL, "[SUCCESS]", " ">> \o success_msg \o <<NL>>),
         AppendLog(<<"end time:", " ", Timestamp, NL>>),
         Return(TRUE, success_msg)>>

NoArtifactMessage == <<"build finished but no .vsix file found">>

\* the else branch reporting success without an artifact
NoArtifactCompleted ==
    (IF variant = "host" THEN <<ChdirBack>> ELSE <<>>)
    \o <<Set("end_time", TRUE), Set("status", "completed"),
         AppendLog(<<NL, "[SUCCESS]", " ", "build succeeded">> \o <<NL>>),
         AppendLog(<<"end time:", " ", Timestamp, NL>>),
         Return(TRUE, <<"build succeeded">>)>>

\* else:
NoArtifact ==
    (IF variant = "host" THEN <<ChdirBack>> ELSE <<>>)
    \o <<Set("error_message", NoArtifactMessage), Set("end_time", TRUE), Set("status", "failed"),
         AppendLog(<<NL, IF variant = "host" THEN "[ERROR]" ELSE "[FAILED]", " ">>
                   \o NoArtifactMessage \o <<NL>>),
         AppendLog(<<"end time:", " ", Timestamp, NL>>),
         Return(FALSE, NoArtifactMessage)>>

\* result_file = find_latest_vsix() and the branch on it
find ==
    /\ w.pc = "find"
    /\ \E result_file \in find_latest_vsix(artifacts) :
         /\ w' = Run([w EXCEPT !.found = result_file],
                     IF result_file # NoName THEN Succeeded(result_file) ELSE NoArtifact, "")
         /\ Event(IF result_file # NoName THEN "artifact" ELSE "no_artifact", 0)
    /\ UNCHANGED <<variant, profile, tasks, queue, task_history, current_task, lock,
                   logfile, artifacts, cwd, repo, h>>

\* a finally clause that leaves the working directory where it is
finally_without_chdir ==
    /\ w.pc = "finally"
    /\ IF w.original_dir = "unbound"
       THEN /\ w' = [w EXCEPT !.pc = "worker_except", !.exc = <<"UnboundLocalError">>]
            /\ Event("worker_exception", 0)
       ELSE /\ w' = [w EXCEPT !.pc = IF w.exc # <<>> THEN "worker_except" ELSE "clear_current"]
            /\ UNCHANGED outcome
    /\ UNCHANGED <<variant, profile, tasks, queue, task_history, current_task, lock,
                   logfile, artifacts, cwd, repo, h>>

\* finally: os.chdir(original_dir); then the return, or the exception, reaches the worker
finally ==
    /\ w.pc = "finally"
    /\ IF w.original_dir = "unbound"
       THEN /\ w' = [w EXCEPT !.pc = "worker_except", !.exc = <<"UnboundLocalError">>]
            /\ Event("worker_exception", 0)
            /\ UNCHANGED cwd
       ELSE /\ cwd' = w.original_dir
            /\ w' = [w EXCEPT !.pc = IF w.exc # <<>> THEN "worker_except" ELSE "clear_current"]
            /\ UNCHANGED outcome
    /\ UNCHANGED <<variant, profile, tasks, queue, task_history, current_task, lock,
                   logfile, artifacts, repo, h>>

\* an exception that ends the worker thread
worker_exits ==
    /\ w.pc = "worker_except"
    /\ w' = [w EXCEPT !.pc = "exited"]
    /\ UNCHANGED <<variant, profile, tasks, queue, task_history, current_task, lock,
                   logfile, artifacts, cwd, repo, h, outcome>>

\* the worker's `except Exception`: host only logs, svc also clears current_task
worker_except ==
    /\ w.pc = "worker_except"
    /\ w' = IF variant = "host" THEN IdleWorker ELSE [w EXCEPT !.pc = "except_clear"]
    /\ UNCHANGED <<variant, profile, tasks, queue, task_history, current_task, lock,
                   logfile, artifacts, cwd, repo, h, outcome>>

execute_npm_commands ==
    \/ getcwd \/ chdir_project \/ init_log \/ loop \/ run \/ check_returncode
    \/ find \/ assign \/ append_task_log \/ chdir_back \/ return \/ finally

build_worker ==
    \/ queue_get \/ WorkerAcquire \/ set_current_task \/ worker_started
    \/ status_fetching \/ fetch_branch \/ fetched \/ execute_npm_commands
    \/ worker_except

Next == Handler \/ build_worker

Spec == Init /\ [][Next]_vars
SpecBuild == InitBuild /\ [][Next]_vars
SpecGit == InitGit /\ [][Next]_vars

\* the worker thread is scheduled and its subprocess calls return
SpecLive == InitLive /\ [][Next]_vars /\ WF_vars(build_worker)

(***************************************************************************)
(* Properties                                                              *)
(***************************************************************************)
Range(s) == {s[i] : i \in 1..Len(s)}

\* the processing of task `id` took the branch `tag`
Took(id, tag) == \E i \in 1..Len(outcome[id]) : outcome[id][i][1] = tag

\* an exception interrupted the processing of task `id`
Interrupted(id) ==
    Took(id, "exception") \/ Took(id, "step_exception") \/ Took(id, "worker_exception")

\* the worker has left task `id` behind
Ended(id) == outcome[id] # <<>> /\ w.task # id

\* C1: tasks are dequeued and begin execution in the order of their submission:
\* the queue holds task ids in increasing order, a task is out of the queue only
\* when every task submitted before it is, and a task has left the queued state
\* only when every task submitted before it has.
C1_FifoOrder ==
    \A i, j \in TaskIds :
        i < j =>
            /\ j \notin Range(queue) => i \notin Range(queue)
            /\ tasks[j].status \notin QueuedStatuses => tasks[i].status \notin QueuedStatuses
            /\ i \in Range(queue) /\ j \in Range(queue)
                   => get_queue_position(queue, i) < get_queue_position(queue, j)

\* three submissions: the first task has ended, the second runs, the third waits
C1_Witness ==
    /\ Len(tasks) = 3
    /\ tasks[1].status \in TerminalStatuses
    /\ tasks[2].status \in RunningStatuses
    /\ tasks[3].status \in QueuedStatuses
    /\ queue = <<3>>

\* C2: in every reachable state at most one task is fetching or building.
C2_AtMostOneRunning ==
    Cardinality({id \in TaskIds : tasks[id].status \in RunningStatuses}) <= 1

\* the tasks still in the queue that were submitted no later than `id`
Rank(id) == Cardinality({j \in Range(queue) : j <= id})

\* C3: get_queue_position gives every queued task its 1-based rank among the tasks
\* not yet dequeued (never 0), and 0 for a task that is running, finished or unknown.
C3_QueuePosition ==
    \A id \in 1..Env.maxTasks :
        IF id \in TaskIds /\ tasks[id].status \in QueuedStatuses
        THEN /\ get_queue_position(queue, id) = Rank(id)
             /\ get_queue_position(queue, id) >= 1
        ELSE get_queue_position(queue, id) = 0

\* the changes of state of the task state machine; a fetch-only task of svc ends
\* its synchronization in fetch_completed
LegalTransitions ==
    (QueuedStatuses \X {"fetching"})
    \cup {<<"fetching", "building">>, <<"fetching", "failed">>,
          <<"building", "completed">>, <<"building", "failed">>,
          <<"fetching", "fetch_completed">>}

\* C4: the state of a task changes only along queued -> fetching, fetching ->
\* building, fetching -> failed, building -> completed and building -> failed; in
\* particular it never changes once it is completed or failed.
C4_LegalTransitions ==
    [][\A id \in TaskIds :
           tasks'[id].status # tasks[id].status
               => <<tasks[id].status, tasks'[id].status>> \in LegalTransitions]_vars

SyncFailedPrefix == <<"branch fetch failed:", " ">>

\* C5: a task whose fetch_branch fails never is building or completed and runs no
\* build command (no command is run for it and nothing is logged); once the worker
\* has left it, it is failed and its error message is the synchronization failure
\* message followed by the reason fetch_branch gave.  A task is building only
\* after its synchronization succeeded.
C5_SyncFailure ==
    \A id \in TaskIds :
        /\ tasks[id].status \in {"building", "completed"}
               => outcome[id] # <<>> /\ outcome[id][1][1] = "synced"
        /\ Took(id, "sync_failed") =>
               /\ outcome[id] = <<<<"sync_failed", 0, 0>>>>
               /\ tasks[id].status \in {"fetching", "failed"}
               /\ tasks[id].logs = <<>>
               /\ ~logfile[id].exists
               /\ w.task = id => w.ran = <<>> /\ w.step = 0
               /\ Ended(id) =>
                      /\ tasks[id].status = "failed"
                      /\ Len(tasks[id].error_message) > Len(SyncFailedPrefix)
                      /\ SubSeq(tasks[id].error_message, 1, Len(SyncFailedPrefix))
                             = SyncFailedPrefix

\* a task ended by a failed synchronization, reported as such
C5_Witness ==
    \E id \in TaskIds :
        /\ Took(id, "sync_failed")
        /\ Ended(id)
        /\ tasks[id].status = "failed"
        /\ tasks[id].error_message = SyncFailedPrefix \o <<"remote branch 'origin/">> \o tasks[id].branch \o <<"' does not exist">>

\* C6: a task whose three commands exited zero and for which find_latest_vsix
\* found no file never is completed, keeps its result file unset, and is failed
\* once the worker has left it.
C6_NoArtifactFails ==
    \A id \in TaskIds :
        Took(id, "no_artifact") =>
            /\ tasks[id].status # "completed"
            /\ tasks[id].result_file = NoName
            /\ Ended(id) => tasks[id].status = "failed"

\* a task ended for want of an artifact after its three commands ran
C6_Witness ==
    \E id \in TaskIds :
        /\ Took(id, "no_artifact")
        /\ Ended(id)
        /\ tasks[id].status = "failed"
        /\ \A k \in 1..Len(CommandNames) :
               \E i \in 1..Len(tasks[id].logs) :
                   tasks[id].logs[i] = CommandNames[k]

\* C7: a task that ended failed because no artifact was found (no exception
\* interrupted it) holds the no-artifact error as its error message.
C7_NoArtifactMessage ==
    \A id \in TaskIds :
        Took(id, "no_artifact") /\ ~Interrupted(id) /\ Ended(id) /\ tasks[id].status = "failed"
            => Contains(tasks[id].error_message, NoArtifactMessage)

\* the positions of the command headers in a log
Headers(log) == {i \in 1..(Len(log) - 2) : log[i] = "run:"}

FailureMarkers == {"[ERROR]", "[FAILED]", "[TIMEOUT]"}
OutputTokens == {"out", "warn", "[stderr]", "run:"}

\* the failure marker of command `k` stands at position i of the log
MarkerAt(log, i, k) ==
    /\ i + 2 <= Len(log)
    /\ log[i] \in FailureMarkers
    /\ log[i + 2] = CommandNames[k]

\* the command `k` of task `id` exited non-zero or timed out
Stopped(id, k) ==
    \E i \in 1..Len(outcome[id]) :
        /\ outcome[id][i][1] \in {"step_failed", "step_timeout"}
        /\ outcome[id][i][2] = k

\* C8: when command k exits non-zero or times out, no later command is run and the
\* log holds the headers of the commands 1..k, in order, and no other; once the
\* worker has left the task the failure marker of command k follows the last
\* header, and neither a header nor command output follows the marker.
C8_PipelineStops ==
    \A id \in TaskIds : \A k \in 1..Len(CommandNames) :
        Stopped(id, k) =>
            LET log == tasks[id].logs
                hs == Headers(log)
            IN /\ Cardinality(hs) = k
               /\ \A i \in hs : log[i + 2] = CommandNames[Cardinality({j \in hs : j <= i})]
               /\ w.task = id => w.step = k /\ w.ran = SubSeq(CommandNames, 1, k)
               /\ Ended(id) =>
                      \E m \in 1..Len(log) :
                          /\ MarkerAt(log, m, k)
                          /\ \A i \in hs : i < m
                          /\ \A i \in (m + 1)..Len(log) : log[i] \notin OutputTokens

\* the second command failed or timed out: two headers and the marker are logged
C8_Witness ==
    \E id \in TaskIds :
        /\ Stopped(id, 2)
        /\ Ended(id)
        /\ Cardinality(Headers(tasks[id].logs)) = 2
        /\ \E m \in 1..Len(tasks[id].logs) : MarkerAt(tasks[id].logs, m, 2)

\* the command `k` of task `id` exited with the code rc
ExitedWith(id, k, rc) ==
    \E i \in 1..Len(outcome[id]) : outcome[id][i] = <<"step_failed", k, rc>>

LatestMatching(dir, name) ==
    \E f \in dir :
        /\ f.name = name
        /\ name[Len(name)] = ".vsix"
        /\ \A g \in dir : g.name[Len(g.name)] = ".vsix" => g.mtime <= f.mtime

\* C10: when a task is completed, its result file is the name of a .vsix file of
\* the artifacts directory whose modification time is maximal among the .vsix
\* files present (checked while the worker is on the task: later builds write
\* the directory again).
C10_LatestArtifact ==
    \A id \in TaskIds :
        tasks[id].status = "completed" /\ w.task = id
            => LatestMatching(artifacts, tasks[id].result_file)

\* a completed task whose artifact is newer than another .vsix file present
C10_Witness ==
    \E id \in TaskIds :
        /\ tasks[id].status = "completed"
        /\ w.task = id
        /\ \E f, g \in artifacts :
               /\ f.name = tasks[id].result_file
               /\ g.name # f.name
               /\ g.name[Len(g.name)] = ".vsix"
               /\ g.mtime < f.mtime

\* C11: for every task in a terminal state the worker has left behind, the content
\* of its log file equals task.logs (a file never created reads as empty).
C11_LogFileEqualsMemory ==
    \A id \in TaskIds :
        tasks[id].status \in TerminalStatuses /\ Ended(id)
            => logfile[id].data = tasks[id].logs

\* C12: once an exception has escaped to the worker loop, every task that is in
\* the queue (then, or submitted later) is eventually dequeued and processed by
\* the worker: the loop goes on.
C12_WorkerSurvives ==
    \A id \in 1..MaxLiveTasks :
        (/\ id \in TaskIds
         /\ id \in Range(queue)
         /\ \E j \in TaskIds : Took(j, "worker_exception"))
        ~> (id \in TaskIds /\ Ended(id))

\* a task processed to its end after an exception escaped from an earlier one
C12_Witness ==
    \E j, id \in TaskIds :
        /\ j < id
        /\ Took(j, "worker_exception")
        /\ Ended(id)
        /\ tasks[id].status \in TerminalStatuses \cup {"fetch_completed"}

\* C13: every task the worker has dequeued eventually is completed or failed (a
\* fetch-only task of svc: fetch_completed) with its end time set.
C13_EventuallyTerminal ==
    \A id \in 1..MaxLiveTasks :
        (id \in TaskIds /\ id \notin Range(queue))
        ~> (/\ id \in TaskIds
            /\ tasks[id].status \in TerminalStatuses \cup {"fetch_completed"}
            /\ tasks[id].end_time)

\* C14: whenever the worker waits in queue.get() for the next task, current_task
\* is None.
C14_CurrentTaskNullWhenIdle ==
    w.pc = "get" => current_task = None

\* every task of the queue q keeps its position in the queue r
KeepsPositions(q, r) ==
    /\ Len(q) <= Len(r)
    /\ \A i \in 1..Len(q) : r[i] = q[i]

\* C15: while some task is fetching or building no task is dequeued: in every step
\* taken from such a state the queued tasks keep their positions 1, 2, ... (new
\* tasks are added behind them), and the queue holds the tasks in arrival order.
C15_QueueStableWhileRunning ==
    [][(\E t \in TaskIds : tasks[t].status \in RunningStatuses)
           => /\ KeepsPositions(queue, queue')
              /\ \A i, j \in 1..Len(queue') : i < j => queue'[i] < queue'[j]]_vars

\* the positions at which the worker runs a git or npm subprocess
SubprocessPcs ==
    {"git_reset", "git_fetch", "check_remote", "check_local", "list_branches",
     "checkout", "reset_to_remote", "create", "commit_info", "run"}

\* C16: the worker holds the lock only inside set_current_task, never while it
\* runs a git or build subprocess: at those positions the lock is free, so the
\* steps of a submission or of a status query that take the lock are enabled.
C16_LockFreeDuringSubprocess ==
    /\ lock = "worker" => w.pc \in WorkerLockPcs
    /\ w.pc \in SubprocessPcs => lock = "free"

\* a status query of the building task answered while the worker runs a command
C16_Witness ==
    /\ w.pc = "run"
    /\ lock = "free"
    /\ h.pc = "respond"
    /\ h.op = "status"
    /\ h.task_id = w.task
    /\ h.resp.branch = "building"

\* how many times the worker came back from fetch_branch for task `id`
TimesFetched(id) ==
    Cardinality({i \in 1..Len(outcome[id]) : outcome[id][i][1] \in {"synced", "sync_failed"}})

\* C17: a task id is in the queue at most once; it leaves the queue only in the
\* step in which the worker takes it, and the worker takes a task only out of the
\* queue; it never enters the queue again and is processed at most once; every
\* submitted task is in task_history and stays there.
C17_QueueAndHistory ==
    /\ [](/\ \A i, j \in 1..Len(queue) : i # j => queue[i] # queue[j]
          /\ Range(queue) \subseteq task_history
          /\ task_history = TaskIds
          /\ \A id \in TaskIds : TimesFetched(id) <= 1
          /\ \A id \in Range(queue) : outcome[id] = <<>> /\ w.task # id)
    /\ [][/\ task_history \subseteq task_history'
          /\ \A id \in task_history :
                 /\ id \notin Range(queue) => id \notin Range(queue')
                 /\ id \in Range(queue) /\ id \notin Range(queue')
                        => w.pc = "get" /\ w'.pc = "set_current" /\ w'.task = id
          /\ w'.task # w.task /\ w'.task # None
                 => w'.task \in Range(queue) /\ w'.task \notin Range(queue')]_vars

\* the first task has been processed, the second is taken, the third waits, and
\* all three are in the history
C17_Witness ==
    /\ task_history = {1, 2, 3}
    /\ Ended(1)
    /\ w.task = 2
    /\ TimesFetched(2) = 1
    /\ queue = <<3>>

\* the characters of a safe branch identifier
SafeChars ==
    {"a", "b", "c", "d", "e", "f", "g", "h", "i", "j", "k", "l", "m", "n", "o", "p", "q",
     "r", "s", "t", "u", "v", "w", "x", "y", "z", "0", "1", "2", "3", "4", "5", "6", "7",
     "8", "9", "-", "_", ".", "/"}

IsSafe(branch) == \A i \in 1..Len(branch) : branch[i] \in SafeChars

\* the git commands whose command line has the branch name formatted into it
BranchVerbs ==
    {"show-ref remote", "show-ref local", "checkout", "reset --hard origin", "checkout -b"}

\* C18: no git command that carries the branch name is run with a branch name
\* that has a character outside the safe identifier set.
C18_SafeBranchInCommands ==
    \A i \in 1..Len(w.cmds) : w.cmds[i].verb \in BranchVerbs => IsSafe(w.cmds[i].branch)

IsPrefixOf(old, new) == Len(old) <= Len(new) /\ SubSeq(new, 1, Len(old)) = old

\* C19: task.logs only grows at its end: in every step the new value of every
\* task's logs begins with the old value, and a task just created has empty logs.
C19_LogsAppendOnly ==
    [][/\ \A id \in TaskIds : IsPrefixOf(tasks[id].logs, tasks'[id].logs)
       /\ \A id \in (DOMAIN tasks') \ TaskIds : tasks'[id].logs = <<>>]_vars

\* the worker is about to append to a log that already has content, after at
\* least one build command has been logged
C19_Witness ==
    /\ w.pc = "script"
    /\ Stmt.op = "append"
    /\ Stmt.content # <<>>
    /\ w.step >= 2
    /\ tasks[w.task].logs # <<>>
    /\ ~IsPrefixOf(tasks[w.task].logs, Stmt.content)

\* C20: start_time is unset while a task is queued and set in every later
\* status; end_time is unset while the task is queued and set in every terminal
\* status.
C20_Timestamps ==
    \A id \in TaskIds :
        /\ tasks[id].status \in QueuedStatuses
               => ~tasks[id].start_time /\ ~tasks[id].end_time
        /\ tasks[id].status \notin QueuedStatuses => tasks[id].start_time
        /\ tasks[id].status \in TerminalStatuses => tasks[id].end_time

\* the worker is inside fetch_branch
FetchPcs ==
    {"git_reset", "git_fetch", "check_remote", "check_local", "list_branches",
     "checkout", "reset_to_remote", "create", "commit_info"}

\* C21: fetch_branch begins with reset --hard and, whether or not it succeeded,
\* goes on to fetch origin; when fetch origin fails it is the last git command
\* of the task and fetch_branch returns failure.
C21_ResetNotFatalFetchFatal ==
    /\ w.cmds # <<>> =>
           /\ w.cmds[1].verb = "reset --hard"
           /\ Len(w.cmds) = 1 => w.pc = "git_fetch"
           /\ Len(w.cmds) >= 2 => w.cmds[2].verb = "fetch origin"
    /\ \A i \in 1..Len(w.cmds) :
           w.cmds[i].verb = "fetch origin" /\ ~w.cmds[i].ok
               => /\ i = Len(w.cmds)
                  /\ w.pc \notin FetchPcs
                  /\ ~w.success
                  /\ w.pc # "fetched" => Took(w.task, "sync_failed")

\* the reset failed, the fetch was run all the same and failed, and the task has
\* been failed by the worker
C21_Witness ==
    /\ Len(w.cmds) = 2
    /\ ~w.cmds[1].ok
    /\ ~w.cmds[2].ok
    /\ Took(w.task, "sync_failed")
    /\ tasks[w.task].status = "failed"

\* the git commands of `verbs` that this fetch_branch has run
RanGit(verbs) == \E i \in 1..Len(w.cmds) : w.cmds[i].verb \in verbs

GitFailed(verb) == \E i \in 1..Len(w.cmds) : w.cmds[i].verb = verb /\ ~w.cmds[i].ok

\* C22: when the fetch succeeded, the branch listing (svc) did not fail and
\* origin/<branch> does not exist, fetch_branch returns failure with the message
\* that the remote branch does not exist, has run no checkout, create or
\* reset-to-remote command, and the task is failed without any build command.
C22_RemoteBranchMissing ==
    /\ w.task # None
    /\ RanGit({"fetch origin"})
    /\ ~GitFailed("fetch origin")
    /\ ~GitFailed("branch -a")
    /\ Branch \notin repo.remote
    /\ w.pc \notin FetchPcs
    => /\ ~w.success
       /\ w.message = RemoteMissing
       /\ ~RanGit({"checkout", "reset --hard origin", "checkout -b"})
       /\ w.ran = <<>>
       /\ ~Took(w.task, "synced")
       /\ tasks[w.task].status \in {"fetching", "fetch_queued", "failed"}
       /\ Ended(w.task) => tasks[w.task].status = "failed"

LastCmd == w.cmds[Len(w.cmds)]

\* the existence checks are the last thing fetch_branch has done
ChecksJustMade(verbs) == w.cmds # <<>> /\ LastCmd.verb \in verbs

\* C23: right after the existence checks, remote_exists is true only if the
\* repository has the ref origin/<branch> and local_exists only if it has the
\* branch <branch>; when the checking command succeeded, an existing ref is
\* found.
C23_ExactBranchChecks ==
    /\ ChecksJustMade({"show-ref remote", "branch -a"}) =>
           /\ w.remote_exists => Branch \in repo.remote
           /\ LastCmd.ok /\ Branch \in repo.remote => w.remote_exists
    /\ ChecksJustMade({"show-ref local", "branch -a"}) =>
           /\ w.local_exists => Branch \in repo.local
           /\ LastCmd.ok /\ Branch \in repo.local => w.local_exists

\* the commands that move the working tree to the requested branch
SyncVerbs == {"checkout", "reset --hard origin", "checkout -b"}

SyncCmds == SelectSeq(w.cmds, LAMBDA c : c.verb \in SyncVerbs)

SyncVerbsRun == [i \in 1..Len(SyncCmds) |-> SyncCmds[i].verb]

\* show-ref on an existing local ref failed (timeout or exception in git_cmd)
LocalCheckFaulted ==
    LastCmd.verb = "show-ref local" /\ ~LastCmd.ok /\ Branch \in repo.local

\* C24: checkout, reset-to-remote and create are run only after the remote branch
\* was found; what is run is checkout then reset --hard origin/<branch>, or the
\* create command alone; when origin/<branch> exists, the first is chosen exactly
\* when the local branch exists; a failure of any of them is the last command and fetch_branch returns
\* failure.
C24_CheckoutThenResetOrCreate ==
    /\ SyncCmds # <<>> => w.remote_exists
    /\ SyncVerbsRun \in {<<>>, <<"checkout">>, <<"checkout", "reset --hard origin">>,
                         <<"checkout -b">>}
    /\ SyncVerbsRun = <<"checkout">> /\ SyncCmds[1].ok => w.pc = "reset_to_remote"
    /\ \A i \in 1..Len(SyncCmds) :
           ~SyncCmds[i].ok => i = Len(SyncCmds) /\ ~w.success /\ w.pc \notin FetchPcs
    /\ w.pc \in {"checkout", "create"} /\ Branch \in repo.remote /\ ~LocalCheckFaulted
           => (w.pc = "checkout") = (Branch \in repo.local)

\* control is inside execute_npm_commands, past original_dir = os.getcwd()
InExecute ==
    \/ w.pc \in {"chdir", "loop", "run", "check", "find", "finally"}
    \/ w.pc = "script" /\ w.level # ""

\* C25: the working directory on entry to execute_npm_commands is the service's
\* directory, it is what original_dir holds, and it is the working directory
\* again whenever control is outside execute_npm_commands, whichever way it left.
C25_WorkingDirectoryRestored ==
    /\ w.original_dir \in {"unbound", "service"}
    /\ ~InExecute => cwd = "service"

\* the pipeline changed directory, a build command raised, and the worker has the
\* task back with the directory restored
C25_Witness ==
    /\ w.pc \in {"clear_current", "worker_except"}
    /\ w.original_dir = "service"
    /\ w.step >= 1
    /\ Interrupted(w.task)
    /\ cwd = "service"

\* c[a..b] is a whole line of c
IsLine(c, a, b) ==
    /\ a <= b
    /\ \A k \in a..b : c[k] # NL
    /\ a = 1 \/ c[a - 1] = NL
    /\ b = Len(c) \/ c[b + 1] = NL

\* c[a..b] is a line of c without the white space around it, and it has a
\* character that is not a separator character
IsMessageLine(c, a, b) ==
    /\ c[a] \notin WhiteSpace
    /\ c[b] \notin WhiteSpace
    /\ \E k \in a..b : c[k] \notin SepChars
    /\ \E la \in 1..a, lb \in b..Len(c) :
           /\ IsLine(c, la, lb)
           /\ \A k \in (la..(a - 1)) \cup ((b + 1)..lb) : c[k] \in WhiteSpace

MessageLines(c) ==
    {ab \in (1..Len(c)) \X (1..Len(c)) : ab[1] <= ab[2] /\ IsMessageLine(c, ab[1], ab[2])}

\* the last message line of c, or `old` when c has none
ExpectedMessage(c, old) ==
    IF MessageLines(c) = {} THEN old
    ELSE LET last == CHOOSE ab \in MessageLines(c) :
                         \A cd \in MessageLines(c) : cd[1] <= ab[1]
         IN SubSeq(c, last[1], last[2])

\* C26: a completed append_task_log(content) leaves in task.error_message the
\* last line of content that is not blank and not made of separator characters
\* only, without the white space around it, or leaves it unchanged when content
\* has no such line.
C26_LastMessage ==
    [][w.pc = "script" /\ Stmt.op = "append" /\ w' # w /\ outcome' = outcome
           => tasks'[w.task].error_message =
                  ExpectedMessage(Stmt.content, tasks[w.task].error_message)]_vars

\* the message comes from a line of the output that is followed by a separator
\* line or a blank line
C26_Witness ==
    \E id \in TaskIds :
        /\ tasks[id].error_message \in {<<"out">>, <<"warn">>}
        /\ Len(tasks[id].logs) >= 3
        /\ tasks[id].logs[Len(tasks[id].logs)] = NL
        /\ tasks[id].logs[Len(tasks[id].logs) - 1] \in {"-", " "}

\* a build command of task `id` did not exit with code zero, or the pipeline was
\* interrupted
StepWentWrong(id) ==
    Took(id, "step_failed") \/ Took(id, "step_timeout") \/ Interrupted(id)

\* C27: the build commands run are an initial part of install, build, package in
\* that order; a command other than the first is started only when the one
\* before it exited with code zero and nothing has failed; a task is completed
\* only after its synchronization succeeded, the three commands exited with
\* code zero and an artifact was found.
C27_StepsInOrder ==
    /\ w.ran = SubSeq(CommandNames, 1, Len(w.ran))
    /\ Len(w.ran) \in {w.step - 1, w.step} \cap (0..Len(CommandNames))
    /\ w.pc = "run" => /\ Len(w.ran) = w.step - 1
                       /\ w.step >= 2 => w.returncode = 0 /\ ~StepWentWrong(w.task)
    /\ \A id \in TaskIds :
           tasks[id].status = "completed"
               => /\ Took(id, "synced")
                  /\ Took(id, "artifact")
                  /\ ~Took(id, "step_failed") /\ ~Took(id, "step_timeout")
                  /\ tasks[id].result_file # NoName
                  /\ id = w.task => w.ran = CommandNames /\ w.returncode = 0

\* the three commands have run and the task is completed, the worker still
\* holding it
C27_Witness ==
    /\ w.task # None
    /\ w.pc = "clear_current"
    /\ w.ran = CommandNames
    /\ tasks[w.task].status = "completed"
    /\ ~StepWentWrong(w.task)

\* C28: in every state a failed task has a non-empty error message and a
\* completed task a non-empty result file; a task the worker has left with a
\* result file is completed.
C28_FieldsPublishedConsistently ==
    \A id \in TaskIds :
        /\ tasks[id].status = "failed" => tasks[id].error_message # <<>>
        /\ tasks[id].status = "completed" => tasks[id].result_file # NoName
        /\ tasks[id].result_file # NoName /\ Ended(id) => tasks[id].status = "completed"

\* C29: a task whose status is fetching or building is the one current_task
\* refers to.
C29_CurrentTaskIsRunningTask ==
    \A id \in TaskIds : tasks[id].status \in RunningStatuses => current_task = id

\* C30: a submission appends exactly one new task, in a queued status, to the
\* queue and the history; the position its handler then reads for the response
\* is at least 1 and is the rank the task had when it was enqueued.
C30_SubmitResponsePosition ==
    [][/\ h.pc = "idle" /\ h'.op = "submit"
           => /\ Len(tasks') = Len(tasks) + 1
              /\ tasks'[h'.task_id].status \in QueuedStatuses
              /\ h'.task_id \notin task_history
              /\ queue' = Append(queue, h'.task_id)
              /\ task_history' = task_history \cup {h'.task_id}
       /\ h.op = "submit" /\ h.pc = "get_queue_position" /\ h'.pc = "respond"
           => /\ h'.queue_position >= 1
              /\ h'.queue_position = h.enqueued_rank]_vars

====
